---- MODULE Spec2Model ----
(***************************************************************************)
(* passbook/audit/models.py: the AuditEntry table (an append-only event    *)
(* log) and the LoginAttempt table (failed-login counters coalesced over a *)
(* trailing 10 minute window).                                             *)
(*                                                                         *)
(* Time is counted in minutes, -1 standing for a timestamp not yet set.     *)
(* None is the string "None"; a user is a string naming the User row,      *)
(* "AnonymousUser" for an unauthenticated request.  Primary keys are       *)
(* positive numbers, 0 stands for "no object".                             *)
(***************************************************************************)
EXTENDS Integers, Sequences, FiniteSets, TLC

VARIABLES
    now,        \* timezone.now(), in minutes
    entries,    \* AuditEntry table: pk -> row
    objs,       \* AuditEntry instances held by callers: pk -> instance
    result,     \* what the last AuditEntry operation returned or raised
    attempts,   \* LoginAttempt table: pk -> row
    workers,    \* request workers inside LoginAttempt.attempt: locals
    calls       \* history: completed LoginAttempt.attempt calls per pair

vars == <<now, entries, objs, result, attempts, workers, calls>>

-----------------------------------------------------------------------------
\* Bounds of the model.

MaxTime == 15          \* the clock stops here
TickStep == 5          \* minutes the clock advances in one step
MaxEntries == 2        \* AuditEntry instances constructed
MaxCalls == 4          \* LoginAttempt.attempt calls started
NumWorkers == 2        \* request workers that may be inside attempt at once
LongLen == 300         \* length of the long target_uid inputs

-----------------------------------------------------------------------------
\* Program constants.

None == "None"
AnonymousUser == "AnonymousUser"

\* AuditEntry.ACTIONS (ACTIONS itself is a reserved word of TLA+).
ACTION_CHOICES ==
    { "login", "login_failed", "logout", "authorize_application",
      "suspicious_request", "sign_up", "password_reset",
      "invitation_created", "invitation_used" }

FallbackIp == "255.255.255.255"

max_length == 254

WindowMinutes == 10

-----------------------------------------------------------------------------
\* Inputs.

\* What ipware's get_client_ip and request.user give for a request.
Requests ==
    { [user |-> AnonymousUser, client_ip |-> None],
      [user |-> "alice",       client_ip |-> "10.0.0.1"] }

\* A keyword argument value: a str, None, or a User model instance.
Str(s)  == [t |-> "str",  v |-> s]
NoneArg == [t |-> "None", v |-> None]
User(u) == [t |-> "User", v |-> u]

\* **kwargs, in call order.
KwargsInputs ==
    { << >>,
      << [k |-> "reason", v |-> Str("x")] >>,
      << [k |-> "user", v |-> User("bob")] >> }

ActionInputs == { "login", "no_such_action" }

-----------------------------------------------------------------------------
\* json.dumps and json.loads on **kwargs.  The text is kept as its sequence of
\* JSON tokens.

Punct(c) == [t |-> "punct", v |-> c]

\* json.dumps raises TypeError on anything but str and None here: a model
\* instance (a User) is not JSON serializable.
Serializable(kwargs) == \A i \in 1..Len(kwargs) : kwargs[i].v.t # "User"

JsonValue(v) ==
    IF v.t = "None" THEN [t |-> "null", v |-> "null"]
    ELSE [t |-> "string", v |-> v.v]

RECURSIVE Members(_, _)
Members(kwargs, i) ==
    IF i > Len(kwargs) THEN << >>
    ELSE (IF i > 1 THEN << Punct(",") >> ELSE << >>)
         \o << [t |-> "string", v |-> kwargs[i].k], Punct(":"),
               JsonValue(kwargs[i].v) >>
         \o Members(kwargs, i + 1)

dumps(kwargs) == << Punct("{") >> \o Members(kwargs, 1) \o << Punct("}") >>

PyValue(tok) == IF tok.t = "null" THEN NoneArg ELSE Str(tok.v)

\* The members of a JSON object text: key, ":", value, separated by ",".
loads(text) ==
    LET n == (Len(text) - 1) \div 4
    IN  [i \in 1..n |-> [k |-> text[4 * i - 2].v, v |-> PyValue(text[4 * i])]]

\* kwargs.get(key, None)
kwargs_get(kwargs, key) ==
    IF \E i \in 1..Len(kwargs) : kwargs[i].k = key
    THEN kwargs[CHOOSE i \in 1..Len(kwargs) : kwargs[i].k = key].v
    ELSE NoneArg

-----------------------------------------------------------------------------
\* AuditEntry

\* The columns of the AuditEntry table.
Columns ==
    { "id", "user", "action", "date", "app", "_context", "request_ip",
      "created" }

\* The table row an instance is written as.
Row(obj) == [c \in Columns |-> obj[c]]

\* AuditEntry(**fields): a new instance, not yet in the table.  UUIDModel
\* gives it a primary key no other instance has.
NewEntry(pk, action, user, request_ip, text) ==
    [ id |-> pk, user |-> user, action |-> action, date |-> -1, app |-> "",
      _context |-> text, request_ip |-> request_ip, created |-> -1,
      adding |-> TRUE, _context_cache |-> [some |-> FALSE, val |-> << >>] ]

NextPk == Cardinality(DOMAIN objs) + 1

Outcome(op, status, ret, args) ==
    [op |-> op, status |-> status, ret |-> ret, args |-> args,
     loaded |-> FALSE, value |-> << >>]

NoArgs == [action |-> "", request |-> [user |-> "", client_ip |-> ""],
           kwargs |-> << >>]

\* A save that leaves date and created as they were.
Inserted_unstamped(obj) == [obj EXCEPT !.adding = FALSE]

\* models.Model.save on an instance that is being added: auto_now_add sets
\* date and created, the row is inserted, the instance stops being "adding".
Inserted(obj) ==
    [obj EXCEPT !.date = now, !.created = now, !.adding = FALSE]

\* A save that never refuses.
MaySave_always(obj) == TRUE

\* AuditEntry.save: the instance may be written once.
MaySave(obj) == obj.adding

save(pk) ==
    /\ pk \in DOMAIN objs
    /\ IF ~MaySave(objs[pk])
       THEN /\ result' = Outcome("save", "ValidationError", pk, NoArgs)
            /\ UNCHANGED <<entries, objs>>
       ELSE /\ objs' = [objs EXCEPT ![pk] = Inserted(objs[pk])]
            /\ entries' = (pk :> Row(Inserted(objs[pk]))) @@ entries
            /\ result' = Outcome("save", "ok", pk, NoArgs)
    /\ UNCHANGED <<now, attempts, workers, calls>>

\* The address as resolved, without the fallback.
RequestIp_nofallback(client_ip) == client_ip

\* request_ip=client_ip or '255.255.255.255'
RequestIp(client_ip) == IF client_ip = None THEN FallbackIp ELSE client_ip

\* user = request.user, or kwargs.get('user', None) for an AnonymousUser
CreateUser(request, kwargs) ==
    IF request.user = AnonymousUser
    THEN kwargs_get(kwargs, "user")
    ELSE User(request.user)

\* AuditEntry.create(action, request, **kwargs)
create(action, request, kwargs) ==
    LET args == [action |-> action, request |-> request, kwargs |-> kwargs]
        user == CreateUser(request, kwargs)
        entry == NewEntry(NextPk, action, user.v,
                          RequestIp(request.client_ip), dumps(kwargs))
    IN  /\ NextPk <= MaxEntries
        /\ IF ~Serializable(kwargs)
           THEN \* dumps(kwargs) raises before objects.create is called
                /\ result' = Outcome("create", "TypeError", 0, args)
                /\ UNCHANGED <<entries, objs>>
           ELSE IF user.t = "str"
           THEN \* the user foreign key takes a User instance or None
                /\ result' = Outcome("create", "ValueError", 0, args)
                /\ UNCHANGED <<entries, objs>>
           ELSE \* objects.create: construct, then save(force_insert=True)
                /\ objs' = (NextPk :> Inserted(entry)) @@ objs
                /\ entries' = (NextPk :> Row(Inserted(entry))) @@ entries
                /\ result' = Outcome("create", "ok", NextPk, args)
        /\ UNCHANGED <<now, attempts, workers, calls>>

\* entry = AuditEntry(action=action): an instance built by a caller.
construct(action) ==
    /\ NextPk <= MaxEntries
    /\ objs' = (NextPk :> NewEntry(NextPk, action, None, FallbackIp,
                                  dumps(<< >>))) @@ objs
    /\ result' = Outcome("construct", "ok", NextPk, NoArgs)
    /\ UNCHANGED <<now, entries, attempts, workers, calls>>

\* entry.action = value: a caller changes an attribute of an instance it
\* holds.
setattr(pk, field, value) ==
    /\ pk \in DOMAIN objs
    /\ objs[pk][field] # value
    /\ objs' = [objs EXCEPT ![pk][field] = value]
    /\ result' = Outcome("setattr", "ok", pk, NoArgs)
    /\ UNCHANGED <<now, entries, attempts, workers, calls>>

\* not self._context_cache: None and the empty dict are both false
Falsy(cache) == ~cache.some \/ Len(cache.val) = 0

\* AuditEntry.context
context(pk) ==
    /\ pk \in DOMAIN objs
    /\ LET obj == objs[pk]
           cache == IF Falsy(obj._context_cache)
                    THEN [some |-> TRUE, val |-> loads(obj._context)]
                    ELSE obj._context_cache
       IN  /\ objs' = [objs EXCEPT ![pk]._context_cache = cache]
           /\ result' = [Outcome("context", "ok", pk, NoArgs) EXCEPT
                           !.loaded = Falsy(obj._context_cache),
                           !.value = cache.val]
    /\ UNCHANGED <<now, entries, attempts, workers, calls>>

\* timezone.now() moves on.
Tick(max) ==
    /\ now + TickStep <= max
    /\ now' = now + TickStep
    /\ UNCHANGED <<entries, objs, result, attempts, workers, calls>>


-----------------------------------------------------------------------------
\* LoginAttempt

\* A target_uid is the sequence of its characters.
Alice == << "a", "l", "i", "c", "e" >>

\* A target_uid longer than the column: max_length times "a", then c's.
LongKey(c) == [i \in 1..LongLen |-> IF i <= max_length THEN "a" ELSE c]

TargetInputs == { Alice, LongKey("b"), LongKey("c") }

\* The argument used as it came.
Truncate_none(target_uid) == target_uid

\* target_uid[:254]
Truncate(target_uid) ==
    SubSeq(target_uid, 1,
           IF Len(target_uid) < max_length THEN Len(target_uid) ELSE max_length)

Workers == 1..NumWorkers

Idle ==
    [ pc |-> "idle", arg |-> << >>, target_uid |-> << >>, client_ip |-> None,
      time_threshold |-> 0, found |-> FALSE, attempt |-> 0, count |-> 0,
      created |-> -1, last_updated |-> -1, status |-> "", ret |-> 0 ]

\* Calls of attempt completed for a pair.
Calls(p) == IF p \in DOMAIN calls THEN calls[p] ELSE 0

\* The history after one more call for the pair has completed.
Completed(p) == (p :> Calls(p) + 1) @@ calls

RECURSIVE SumCalls(_)
SumCalls(ps) ==
    IF ps = {} THEN 0
    ELSE LET p == CHOOSE q \in ps : TRUE
         IN  calls[p] + SumCalls(ps \ {p})

\* Calls started so far: the completed ones and those under way.
Started ==
    SumCalls(DOMAIN calls) + Cardinality({w \in Workers : workers[w].pc # "idle"})

\* A window of 5 minutes.
TimeThreshold_short(t) == t - 5

\* timezone.now() - timedelta(minutes=10)
TimeThreshold(t) == t - WindowMinutes

\* The window closed at its start.
InWindow_gte(last_updated, time_threshold) == last_updated >= time_threshold

\* last_updated__gt=time_threshold
InWindow(last_updated, time_threshold) == last_updated > time_threshold

\* A filter that leaves the address out.
existing_attempts_any_ip(target_uid, client_ip, time_threshold) ==
    { pk \in DOMAIN attempts :
        /\ attempts[pk].target_uid = target_uid
        /\ attempts[pk].last_updated > time_threshold }

\* A filter on the time of creation.
existing_attempts_by_created(target_uid, client_ip, time_threshold) ==
    { pk \in DOMAIN attempts :
        /\ attempts[pk].target_uid = target_uid
        /\ attempts[pk].request_ip = client_ip
        /\ attempts[pk].created > time_threshold }

\* A filter that leaves the target out.
existing_attempts_any_target(target_uid, client_ip, time_threshold) ==
    { pk \in DOMAIN attempts :
        /\ attempts[pk].request_ip = client_ip
        /\ attempts[pk].last_updated > time_threshold }

\* LoginAttempt.objects.filter(target_uid=..., request_ip=...,
\*                             last_updated__gt=time_threshold)
existing_attempts(target_uid, client_ip, time_threshold) ==
    { pk \in DOMAIN attempts :
        /\ attempts[pk].target_uid = target_uid
        /\ attempts[pk].request_ip = client_ip
        /\ InWindow(attempts[pk].last_updated, time_threshold) }

\* The latest row instead of the earliest.
first_latest(pks) ==
    CHOOSE pk \in pks : \A other \in pks :
        attempts[pk].created >= attempts[other].created

\* .order_by('created').first()
first(pks) ==
    CHOOSE pk \in pks : \A other \in pks :
        attempts[pk].created <= attempts[other].created

\* A table without the unique constraint.
UniqueTogether_unchecked(row) == TRUE

\* unique_together = (('target_uid', 'request_ip', 'created'),)
UniqueTogether(row) ==
    \A pk \in DOMAIN attempts :
        \/ attempts[pk].target_uid # row.target_uid
        \/ attempts[pk].request_ip # row.request_ip
        \/ attempts[pk].created # row.created

\* CreatedUpdatedModel: created is the clock's value when the row is
\* inserted, last_updated the clock's value at every save.
auto_now(row, adding) ==
    [row EXCEPT !.last_updated = now,
                !.created = IF adding THEN now ELSE @]

\* attempt(target_uid, request) up to the filter: the arguments are resolved
\* and the threshold is taken from the clock.
attempt_begin(w, target_uid, request) ==
    /\ workers[w].pc = "idle"
    /\ Started < MaxCalls
    /\ workers' = [workers EXCEPT ![w] =
            [Idle EXCEPT !.pc = "exists",
                         !.arg = target_uid,
                         !.target_uid = Truncate(target_uid),
                         !.client_ip = request.client_ip,
                         !.time_threshold = TimeThreshold(now)]]
    /\ UNCHANGED <<now, entries, objs, result, attempts, calls>>

\* if existing_attempts.exists():
attempt_exists(w) ==
    /\ workers[w].pc = "exists"
    /\ LET l == workers[w]
           found == existing_attempts(l.target_uid, l.client_ip,
                                      l.time_threshold) # {}
       IN  workers' = [workers EXCEPT ![w].found = found,
                          ![w].pc = IF found THEN "first" ELSE "create"]
    /\ UNCHANGED <<now, entries, objs, result, attempts, calls>>

\* attempt = existing_attempts.first(): the queryset is evaluated again and
\* the row is read into an instance.
attempt_first(w) ==
    /\ workers[w].pc = "first"
    /\ LET l == workers[w]
           pks == existing_attempts(l.target_uid, l.client_ip,
                                    l.time_threshold)
       IN  IF pks = {}
           THEN \* first() is None: attempt.attempts raises
                /\ workers' = [workers EXCEPT ![w].pc = "idle",
                                  ![w].status = "AttributeError"]
                /\ calls' = Completed(<<l.target_uid, l.client_ip>>)
           ELSE /\ workers' = [workers EXCEPT ![w].pc = "save",
                                  ![w].attempt = first(pks),
                                  ![w].count = attempts[first(pks)].attempts,
                                  ![w].created = attempts[first(pks)].created,
                                  ![w].last_updated =
                                      attempts[first(pks)].last_updated]
                /\ UNCHANGED calls
    /\ UNCHANGED <<now, entries, objs, result, attempts>>

\* The count left as it was read.
Incremented_forgotten(w, stored) == workers[w].count

\* The count taken from the row at the time of the write.
Incremented_atomic(w, stored) == stored + 1

\* The count started again.
Incremented_reset(w, stored) == 1

\* attempt.attempts += 1: the count the UPDATE writes comes from the instance.
Incremented(w, stored) == workers[w].count + 1

\* attempt.attempts += 1; attempt.save(): every column of the row is written
\* from the instance, auto_now refreshes last_updated; the call returns None.
attempt_save(w) ==
    /\ workers[w].pc = "save"
    /\ LET l == workers[w]
       IN  /\ attempts' = [attempts EXCEPT ![l.attempt] = auto_now(
                  [ target_uid |-> attempts[l.attempt].target_uid,
                    request_ip |-> attempts[l.attempt].request_ip,
                    attempts |-> Incremented(w, attempts[l.attempt].attempts),
                    created |-> l.created, last_updated |-> l.last_updated ],
                  FALSE)]
           /\ calls' = Completed(<<l.target_uid, l.client_ip>>)
    /\ workers' = [workers EXCEPT ![w].pc = "idle", ![w].status = "ok",
                                  ![w].ret = 0]
    /\ UNCHANGED <<now, entries, objs, result>>

\* LoginAttempt.objects.create(target_uid=target_uid, request_ip=client_ip):
\* attempts takes its default 1, created and last_updated are the clock's.
\* request_ip is not nullable and the triple is unique, so the INSERT may
\* raise IntegrityError.  The call returns None.
attempt_create(w) ==
    /\ workers[w].pc = "create"
    /\ LET l == workers[w]
           pk == Cardinality(DOMAIN attempts) + 1
           row == auto_now(
                    [ target_uid |-> l.target_uid, request_ip |-> l.client_ip,
                      attempts |-> 1, created |-> -1, last_updated |-> -1 ],
                    TRUE)
       IN  /\ IF l.client_ip = None \/ ~UniqueTogether(row)
              THEN /\ workers' = [workers EXCEPT ![w].pc = "idle",
                                     ![w].status = "IntegrityError"]
                   /\ UNCHANGED attempts
              ELSE /\ attempts' = (pk :> row) @@ attempts
                   /\ workers' = [workers EXCEPT ![w].pc = "idle",
                                     ![w].status = "ok", ![w].attempt = pk,
                                     ![w].count = 1, ![w].created = now,
                                     ![w].last_updated = now, ![w].ret = 0]
           /\ calls' = Completed(<<l.target_uid, l.client_ip>>)
    /\ UNCHANGED <<now, entries, objs, result>>

-----------------------------------------------------------------------------
\* Specifications

Init ==
    /\ now = 0
    /\ entries = << >>
    /\ objs = << >>
    /\ result = Outcome("none", "ok", 0, NoArgs)
    /\ attempts = << >>
    /\ workers = [w \in Workers |-> Idle]
    /\ calls = << >>

AuditEntryStep(actions, requests, kwargss) ==
    \/ \E a \in actions, r \in requests, k \in kwargss : create(a, r, k)
    \/ \E a \in actions : construct(a)
    \/ \E pk \in DOMAIN objs, a \in actions : setattr(pk, "action", a)
    \/ \E pk \in DOMAIN objs : save(pk)
    \/ \E pk \in DOMAIN objs : context(pk)

AttemptStep(ws, targets, requests) ==
    \/ \E w \in ws, t \in targets, r \in requests : attempt_begin(w, t, r)
    \/ \E w \in ws : attempt_exists(w)
    \/ \E w \in ws : attempt_first(w)
    \/ \E w \in ws : attempt_save(w)
    \/ \E w \in ws : attempt_create(w)

\* AuditEntry alone, over all its inputs, the clock standing still.
NextAudit ==
    \/ AuditEntryStep(ActionInputs, Requests, KwargsInputs)

SpecAudit == Init /\ [][NextAudit]_vars

\* LoginAttempt under sequential use: one worker, so a call of attempt
\* returns before the next one starts.
NextSeq == Tick(MaxTime) \/ AttemptStep({1}, TargetInputs, Requests)

SpecSeq == Init /\ [][NextSeq]_vars

\* LoginAttempt with requests served concurrently.
NextConc == Tick(MaxTime) \/ AttemptStep(Workers, {Alice}, Requests)

SpecConc == Init /\ [][NextConc]_vars

\* AuditEntry.create for every member of ACTIONS, the clock moving.
NextClock ==
    \/ Tick(MaxTime)
    \/ \E a \in ACTION_CHOICES \cup ActionInputs, r \in Requests :
            create(a, r, << >>)

SpecClock == Init /\ [][NextClock]_vars

\* AuditEntry.create and LoginAttempt.attempt side by side, two targets.
NextBoth ==
    \/ Tick(MaxTime)
    \/ \E a \in ActionInputs :
            create(a, [user |-> AnonymousUser, client_ip |-> None], << >>)
    \/ AttemptStep({1}, {Alice, LongKey("b")},
                   {[user |-> "alice", client_ip |-> "10.0.0.1"]})

SpecBoth == Init /\ [][NextBoth]_vars

\* Every operation of the module, the clock standing still.
Next ==
    \/ AuditEntryStep(ActionInputs, {[user |-> AnonymousUser, client_ip |-> None]}, {<< >>})
    \/ AttemptStep({1}, {Alice}, {[user |-> "alice", client_ip |-> "10.0.0.1"]})

Spec == Init /\ [][Next]_vars

-----------------------------------------------------------------------------
\* AuditEntry: properties

\* C1: save on an AuditEntry that is already in the table raises
\* ValidationError, and the table (every column of every row) is what it was
\* before the call.
C1_SaveOfPersistedFails ==
    [][\A pk \in DOMAIN entries :
          save(pk) => /\ result'.status = "ValidationError"
                      /\ entries' = entries]_vars

\* A persisted instance was changed in memory, save was called on it and
\* raised, and the row still has the old value.
C1_Witness ==
    /\ result.op = "save"
    /\ result.status = "ValidationError"
    /\ result.ret \in DOMAIN entries
    /\ objs[result.ret].action # entries[result.ret].action

\* C2: the table only grows: a row that is in the table stays in it with
\* every column unchanged, whatever operation runs, and no two rows have the
\* same id.
C2_AppendOnly ==
    [][/\ \A pk \in DOMAIN entries :
              pk \in DOMAIN entries' /\ entries'[pk] = entries[pk]
       /\ \A p1, p2 \in DOMAIN entries' :
              p1 # p2 => entries'[p1].id # entries'[p2].id]_vars

\* Two rows are stored, an instance of one of them was changed in memory and
\* its save refused, and attempt has run as well.
C2_Witness ==
    /\ Cardinality(DOMAIN entries) = 2
    /\ result.op = "save"
    /\ result.status = "ValidationError"
    /\ objs[result.ret].action # entries[result.ret].action
    /\ DOMAIN attempts # {}

\* C5: create with an action that is not one of ACTIONS raises and stores
\* nothing: the table after the call is the table before it.
C5_InvalidActionRejected ==
    [][\A a \in ActionInputs \ ACTION_CHOICES, r \in Requests,
          k \in KwargsInputs :
          create(a, r, k) => /\ result'.status # "ok"
                             /\ entries' = entries]_vars

HasKey(kwargs, key) == \E i \in 1..Len(kwargs) : kwargs[i].k = key

\* C9: create takes the user of the new row from the request when it is
\* authenticated; for an AnonymousUser with a user keyword argument the row
\* is created with that user; for an AnonymousUser without one the row is
\* created with no user.
C9_UserResolution ==
    result.op = "create" =>
        LET a == result.args
            stored == result.status = "ok" /\ result.ret \in DOMAIN entries
        IN  IF a.request.user # AnonymousUser
            THEN stored => entries[result.ret].user = a.request.user
            ELSE IF HasKey(a.kwargs, "user")
            THEN stored /\ entries[result.ret].user
                               = kwargs_get(a.kwargs, "user").v
            ELSE stored /\ entries[result.ret].user = None

\* C10: create stores 255.255.255.255 as request_ip when get_client_ip gives
\* no address, and the address itself when it gives one.
C10_RequestIpFallback ==
    (result.op = "create" /\ result.status = "ok") =>
        /\ result.ret \in DOMAIN entries
        /\ entries[result.ret].request_ip =
              IF result.args.request.client_ip = None
              THEN "255.255.255.255"
              ELSE result.args.request.client_ip

\* A row was created for a request without a client address.
C10_Witness ==
    /\ result.op = "create"
    /\ result.status = "ok"
    /\ result.args.request.client_ip = None
    /\ entries[result.ret].request_ip = "255.255.255.255"


-----------------------------------------------------------------------------
\* LoginAttempt: properties

\* The rows of a (target_uid, request_ip) pair.
Records(p) ==
    { pk \in DOMAIN attempts :
        attempts[pk].target_uid = p[1] /\ attempts[pk].request_ip = p[2] }

RECURSIVE SumAttempts(_)
SumAttempts(pks) ==
    IF pks = {} THEN 0
    ELSE LET pk == CHOOSE q \in pks : TRUE
         IN  attempts[pk].attempts + SumAttempts(pks \ {pk})

\* C3: under sequential use, while every call for a pair with a resolved
\* address was made less than 10 minutes ago (the pair had no row before
\* them), the n completed calls have left exactly one row for the pair and
\* its attempts is n.
C3_OneRowPerWindow ==
    \A p \in DOMAIN calls :
        ( /\ p[2] # None
          /\ \A pk \in Records(p) : now - attempts[pk].created < 10 )
        => \E pk \in Records(p) :
              /\ Records(p) = {pk}
              /\ attempts[pk].attempts = calls[p]

\* Three calls for alice from 10.0.0.1, the clock moving between them, have
\* left one row counting 3.
C3_Witness ==
    LET p == <<Alice, "10.0.0.1">>
    IN  /\ p \in DOMAIN calls
        /\ calls[p] = 3
        /\ \E pk \in Records(p) :
              /\ Records(p) = {pk}
              /\ attempts[pk].attempts = 3
              /\ attempts[pk].created < attempts[pk].last_updated
              /\ now - attempts[pk].created < 10

\* The pair the last call of a worker was about.
PairOf(w) == <<workers[w].target_uid, workers[w].client_ip>>

\* The second call for a pair has returned, and it started 10 minutes or
\* more after the first call wrote its row.
C4_SecondCallAfterWindow ==
    /\ workers[1].pc = "idle"
    /\ workers[1].status = "ok"
    /\ PairOf(1) \in DOMAIN calls
    /\ calls[PairOf(1)] = 2
    /\ \E pk \in Records(PairOf(1)) :
          attempts[pk].created <= workers[1].time_threshold

\* C4: under sequential use, a second call for a pair made once the window
\* has elapsed since the first leaves two rows for the pair, each with
\* attempts 1, and the first row is as the first call wrote it.
C4_NewWindowNewRow ==
    C4_SecondCallAfterWindow =>
        /\ Cardinality(Records(PairOf(1))) = 2
        /\ \A pk \in Records(PairOf(1)) :
              /\ attempts[pk].attempts = 1
              /\ attempts[pk].last_updated = attempts[pk].created
        /\ workers[1].attempt \in Records(PairOf(1))
        /\ attempts[workers[1].attempt].created > workers[1].time_threshold

\* The second call came exactly 10 minutes after the first and two rows are
\* stored.
C4_Witness ==
    /\ C4_SecondCallAfterWindow
    /\ Cardinality(Records(PairOf(1))) = 2
    /\ \E pk \in Records(PairOf(1)) :
          attempts[pk].created = workers[1].time_threshold

\* C6: the filter and the write of attempt are separate steps.  The UPDATE
\* writes the count the worker read plus 1, whatever the row holds by then,
\* and the INSERT adds a row with attempts 1 even when a row of the pair
\* that is inside the window has appeared since the filter.
C6_ReadThenWrite ==
    [][\A w \in Workers :
          /\ attempt_save(w) =>
                attempts'[workers[w].attempt].attempts = workers[w].count + 1
          /\ (attempt_create(w) /\ workers'[w].status = "ok") =>
                /\ Cardinality(DOMAIN attempts') =
                       Cardinality(DOMAIN attempts) + 1
                /\ attempts'[workers'[w].attempt].attempts = 1]_vars

\* Both races have happened to one pair: two of its rows were created less
\* than 10 minutes apart (each creator read "no match"), and two workers
\* have both read the same row at the same count and both written it, so
\* the rows count one call less than have completed.
C6_Witness ==
    \E p \in DOMAIN calls :
        /\ \E r1, r2 \in Records(p) :
              /\ r1 # r2
              /\ attempts[r1].created <= attempts[r2].created
              /\ attempts[r2].created - attempts[r1].created < 10
        /\ \E w1, w2 \in Workers :
              /\ w1 # w2
              /\ PairOf(w1) = p /\ PairOf(w2) = p
              /\ workers[w1].pc = "idle" /\ workers[w2].pc = "idle"
              /\ workers[w1].status = "ok" /\ workers[w2].status = "ok"
              /\ workers[w1].found /\ workers[w2].found
              /\ workers[w1].attempt = workers[w2].attempt
              /\ workers[w1].count = workers[w2].count
              /\ attempts[workers[w1].attempt].attempts = workers[w1].count + 1
        /\ SumAttempts(Records(p)) = calls[p] - 1

\* C7: no two rows have the same (target_uid, request_ip, created), also
\* when calls of attempt interleave.
C7_UniqueTriple ==
    \A p1, p2 \in DOMAIN attempts :
        ( /\ attempts[p1].target_uid = attempts[p2].target_uid
          /\ attempts[p1].request_ip = attempts[p2].request_ip
          /\ attempts[p1].created = attempts[p2].created ) => p1 = p2

\* Two workers read "no match" for one pair and wrote at the same clock
\* value: the second INSERT was refused.
C7_Witness ==
    \E w \in Workers :
        /\ workers[w].pc = "idle"
        /\ workers[w].status = "IntegrityError"
        /\ workers[w].client_ip # None
        /\ \E pk \in Records(PairOf(w)) : attempts[pk].created = now

\* C8: attempt returns the row it incremented or created.
C8_ReturnsTheRow ==
    \A w \in Workers :
        (workers[w].pc = "idle" /\ workers[w].status = "ok") =>
            /\ workers[w].ret = workers[w].attempt
            /\ workers[w].ret \in DOMAIN attempts


-----------------------------------------------------------------------------
\* AuditEntry: further properties

\* C11: a create with an action of ACTIONS that returns adds exactly one
\* row, the row it returns; the row's action is the argument and its date is
\* a clock value between the start and the return of the call.
C11_CreateAddsOneRow ==
    [][\A a \in ACTION_CHOICES, r \in Requests, k \in KwargsInputs :
          (create(a, r, k) /\ result'.status = "ok") =>
              /\ result'.ret \notin DOMAIN entries
              /\ DOMAIN entries' = DOMAIN entries \cup {result'.ret}
              /\ entries'[result'.ret].action = a
              /\ now <= entries'[result'.ret].date
              /\ entries'[result'.ret].date <= now']_vars

\* A second row was created after the clock had moved: it carries its
\* action and the later clock value.
C11_Witness ==
    /\ result.op = "create"
    /\ result.status = "ok"
    /\ result.args.action = "invitation_used"
    /\ Cardinality(DOMAIN entries) = 2
    /\ now > 0
    /\ entries[result.ret].action = "invitation_used"
    /\ entries[result.ret].date = now

\* C12: a read of context on an instance whose context was read before
\* does not call loads again and returns the value the earlier read gave,
\* whatever the payload, the empty mapping included.
C12_SecondReadIsCached ==
    [][\A pk \in DOMAIN objs :
          (context(pk) /\ objs[pk]._context_cache.some) =>
              /\ ~result'.loaded
              /\ result'.value = objs[pk]._context_cache.val]_vars


-----------------------------------------------------------------------------
\* LoginAttempt: further properties

\* The first 254 characters of a target_uid argument.
Prefix(arg) == [i \in 1..(IF Len(arg) < 254 THEN Len(arg) ELSE 254) |-> arg[i]]

\* C13: no stored target_uid is longer than 254 characters; under sequential
\* use the row a returned call wrote holds the first 254 characters of the
\* argument, and no other row with that prefix and address is inside the
\* window of the call: a row of the prefix that was inside it was
\* incremented, not joined by a second one.
C13_TruncatedOnReadAndWrite ==
    /\ \A pk \in DOMAIN attempts : Len(attempts[pk].target_uid) <= 254
    /\ LET l == workers[1]
       IN  (l.pc = "idle" /\ l.status = "ok") =>
              /\ attempts[l.attempt].target_uid = Prefix(l.arg)
              /\ \A pk \in DOMAIN attempts :
                    ( /\ pk # l.attempt
                      /\ attempts[pk].target_uid = Prefix(l.arg)
                      /\ attempts[pk].request_ip = l.client_ip )
                    => attempts[pk].last_updated <= l.time_threshold

\* A call with a 300 character key has incremented the row that holds its
\* 254 character prefix, and that is the only row.
C13_Witness ==
    LET l == workers[1]
    IN  /\ l.pc = "idle" /\ l.status = "ok" /\ l.found
        /\ Len(l.arg) = LongLen
        /\ l.arg = LongKey("c")
        /\ DOMAIN attempts = {l.attempt}
        /\ Len(attempts[l.attempt].target_uid) = 254
        /\ attempts[l.attempt].attempts = 3


\* The rows with the target_uid and request_ip of worker w's call whose
\* last_updated is later than t.
Matching(w, t) ==
    { pk \in DOMAIN attempts :
        /\ attempts[pk].target_uid = Prefix(workers[w].arg)
        /\ attempts[pk].request_ip = workers[w].client_ip
        /\ attempts[pk].last_updated > t }

\* C14: the threshold of a call is the clock minus 10 minutes, and the call
\* finds a match exactly when some row has the truncated key, the resolved
\* address and a last_updated strictly later than the threshold; with no
\* match it goes on to create a row.
C14_MatchRule ==
    [][/\ \A t \in TargetInputs, r \in Requests :
              attempt_begin(1, t, r) =>
                  workers'[1].time_threshold = now - 10
       /\ attempt_exists(1) =>
              /\ workers'[1].found <=>
                     Matching(1, workers[1].time_threshold) # {}
              /\ workers'[1].pc =
                     IF Matching(1, workers[1].time_threshold) # {}
                     THEN "first" ELSE "create"]_vars

\* A call that started exactly 10 minutes after the last update of the only
\* row of its pair found no match and is about to create a row.
C14_Witness ==
    LET l == workers[1]
    IN  /\ l.pc = "create"
        /\ ~l.found
        /\ l.client_ip # None
        /\ \E pk \in DOMAIN attempts :
              /\ attempts[pk].target_uid = l.target_uid
              /\ attempts[pk].request_ip = l.client_ip
              /\ attempts[pk].last_updated = l.time_threshold
              /\ attempts[pk].last_updated = now - 10


\* C15: the row a call takes is the match with the earliest created, also
\* when several rows match; unless another call has written that row since
\* it was read, the save adds 1 to its attempts, leaves every other row as
\* it was (its attempts and last_updated included) and adds no row.
C15_EarliestMatchOnly ==
    [][\A w \in Workers :
          LET l == workers[w]
              m == Matching(w, l.time_threshold)
          IN  /\ (attempt_first(w) /\ m # {}) =>
                    /\ workers'[w].attempt \in m
                    /\ \A o \in m : attempts[workers'[w].attempt].created
                                        <= attempts[o].created
              /\ (attempt_save(w) /\ attempts[l.attempt].attempts = l.count) =>
                    /\ DOMAIN attempts' = DOMAIN attempts
                    /\ attempts'[l.attempt].attempts =
                           attempts[l.attempt].attempts + 1
                    /\ \A pk \in DOMAIN attempts :
                           pk # l.attempt => attempts'[pk] = attempts[pk]]_vars

\* Two rows of one pair matched a call: the earlier one was read inside the
\* window and now counts 2, the later one is inside the window too and
\* still counts 1.
C15_Witness ==
    \E w \in Workers :
        LET l == workers[w]
        IN  /\ l.pc = "idle" /\ l.status = "ok" /\ l.found
            /\ l.last_updated > l.time_threshold
            /\ attempts[l.attempt].attempts = 2
            /\ \E pk \in DOMAIN attempts :
                  /\ pk # l.attempt
                  /\ attempts[pk].target_uid = l.target_uid
                  /\ attempts[pk].request_ip = l.client_ip
                  /\ attempts[pk].last_updated > l.time_threshold
                  /\ attempts[pk].last_updated < now
                  /\ attempts[pk].created > attempts[l.attempt].created
                  /\ attempts[pk].attempts = 1

\* The rows of a pair whose last_updated is inside the window that ends now.
Current(p) ==
    { pk \in DOMAIN attempts :
        /\ attempts[pk].target_uid = p[1]
        /\ attempts[pk].request_ip = p[2]
        /\ attempts[pk].last_updated > now - 10 }

\* The pairs that have rows.
StoredPairs ==
    { <<attempts[pk].target_uid, attempts[pk].request_ip>> :
        pk \in DOMAIN attempts }

\* C16: under sequential use at most one row of a pair has its last_updated
\* inside the current window.
C16_OneCurrentRow ==
    \A p \in StoredPairs : Cardinality(Current(p)) <= 1

\* A pair has two rows, one of them inside the current window.
C16_Witness ==
    \E p \in StoredPairs :
        /\ Cardinality(Records(p)) = 2
        /\ Cardinality(Current(p)) = 1

\* C17: under sequential use the save of a call changes attempts (plus 1) and
\* last_updated (the clock) of the row it took and nothing else, and the
\* create of a call adds one row with attempts 1 and created = last_updated
\* = the clock.
C17_IncrementFrame ==
    [][LET l == workers[1]
       IN  /\ attempt_save(1) =>
                 /\ DOMAIN attempts' = DOMAIN attempts
                 /\ attempts' = [attempts EXCEPT
                        ![l.attempt].attempts = @ + 1,
                        ![l.attempt].last_updated = now]
           /\ (attempt_create(1) /\ workers'[1].status = "ok") =>
                 /\ workers'[1].attempt \notin DOMAIN attempts
                 /\ DOMAIN attempts' =
                        DOMAIN attempts \cup {workers'[1].attempt}
                 /\ \A pk \in DOMAIN attempts : attempts'[pk] = attempts[pk]
                 /\ attempts'[workers'[1].attempt] =
                        [ target_uid |-> l.target_uid,
                          request_ip |-> l.client_ip, attempts |-> 1,
                          created |-> now, last_updated |-> now ]]_vars

\* A row created at one clock value was incremented at a later one.
C17_Witness ==
    LET l == workers[1]
    IN  /\ l.pc = "idle" /\ l.status = "ok" /\ l.found
        /\ attempts[l.attempt].attempts = 2
        /\ attempts[l.attempt].created < attempts[l.attempt].last_updated
        /\ attempts[l.attempt].last_updated = now


\* C18: a step of attempt leaves the AuditEntry table and every row of
\* another (target_uid, request_ip) pair as they were, and create leaves the
\* LoginAttempt table as it was.
C18_Independent ==
    [][/\ ( \/ attempt_exists(1) \/ attempt_first(1)
            \/ attempt_save(1) \/ attempt_create(1)
            \/ \E t \in TargetInputs, r \in Requests : attempt_begin(1, t, r) )
          => /\ entries' = entries
             /\ \A pk \in DOMAIN attempts :
                   ( \/ attempts[pk].target_uid # workers[1].target_uid
                     \/ attempts[pk].request_ip # workers[1].client_ip
                     \/ workers[1].pc = "idle" )
                   => (pk \in DOMAIN attempts' /\ attempts'[pk] = attempts[pk])
       /\ ( \E a \in ActionInputs, r \in Requests, k \in KwargsInputs :
                create(a, r, k) )
          => attempts' = attempts]_vars

\* Rows of two pairs and two AuditEntry rows are stored, and the last call
\* of attempt incremented the row of its own pair.
C18_Witness ==
    /\ Cardinality(StoredPairs) = 2
    /\ Cardinality(DOMAIN entries) = 2
    /\ workers[1].pc = "idle" /\ workers[1].status = "ok" /\ workers[1].found
    /\ attempts[workers[1].attempt].attempts = 2


\* C19: under sequential use every row has attempts >= 1, and for every
\* pair with a resolved address the attempts of its rows add up to the
\* number of calls completed for it.
C19_EveryAttemptCounted ==
    /\ \A pk \in DOMAIN attempts : attempts[pk].attempts >= 1
    /\ \A p \in DOMAIN calls :
          p[2] # None => SumAttempts(Records(p)) = calls[p]
    /\ \A p \in StoredPairs : p \in DOMAIN calls

\* Three calls for one pair are spread over two rows, one counting 2 and
\* one counting 1.
C19_Witness ==
    \E p \in DOMAIN calls :
        /\ calls[p] = 3
        /\ Cardinality(Records(p)) = 2
        /\ \E pk \in Records(p) : attempts[pk].attempts = 2
        /\ SumAttempts(Records(p)) = 3

\* C20: under sequential use a pair gets a further row only when a call
\* starts 10 minutes or more after the last update of its latest row, however
\* long ago that row was created: of two rows of a pair, the later was
\* created at least 10 minutes after the last update of the earlier.
C20_WindowSlides ==
    \A p \in DOMAIN calls :
        p[2] # None =>
            /\ \A r1, r2 \in Records(p) :
                  attempts[r1].created < attempts[r2].created =>
                      attempts[r2].created - attempts[r1].last_updated >= 10
            /\ \A r1, r2 \in Records(p) :
                  r1 # r2 => attempts[r1].created # attempts[r2].created

\* Four calls, each 5 minutes after the one before, are in one row although
\* the last came 15 minutes after the first.
C20_Witness ==
    \E p \in DOMAIN calls :
        /\ calls[p] = 4
        /\ \E pk \in Records(p) :
              /\ Records(p) = {pk}
              /\ attempts[pk].attempts = 4
              /\ attempts[pk].last_updated - attempts[pk].created > 10


====
